---- MODULE Spec2Model ----
(***************************************************************************)
(* Court Vision: the tracking and shot-event inference pipeline.           *)
(*                                                                         *)
(*   DetectionService.track_objects      (services/detection.py)           *)
(*   AnalysisService._detect_shots, _analyze_trajectory, _get_zone,        *)
(*     _calculate_shot_confidence, _generate_mock_shots,                   *)
(*     _calculate_statistics, _calculate_zone_stats, analyze_shots         *)
(*                                       (services/analysis.py)            *)
(*                                                                         *)
(* Pixel coordinates are integers.  The code divides them by 1920 / 1080   *)
(* and compares IEEE doubles; every comparison below is the integer        *)
(* comparison that gives the same answer as the double comparison for      *)
(* every integer pixel in 0..1920 (0..1080).  Units: confidence 1/192000,  *)
(* release_x 1/1920 percent, release_y 1/1080 percent, timestamp 1/30 s.   *)
(***************************************************************************)
EXTENDS Integers, Sequences, FiniteSets, TLC

VARIABLES
    pc,                     \* position of the running operation
    players,                \* track_objects: tracks["players"]
    last_player_positions,  \* track_objects: last position per track id
    player_id,              \* track_objects: next track id
    ball,                   \* track_objects: tracks["ball"]
    frame_idx,              \* track_objects: index of the frame being read
    lastAssign,             \* history: the last person assignment made
    nread,                  \* history: the number of detections read
    ball_track,             \* _detect_shots: tracks.get("ball", [])
    i,                      \* _detect_shots: scan index
    shot_id,                \* _detect_shots: next shot id
    shots,                  \* the ShotEvent list being built / aggregated
    result,                 \* what the running operation returned
    rng,                    \* state of the process-wide numpy generator
    window,                 \* _detect_shots / _analyze_trajectory: the window
    verdict,                \* (is_shot, outcome) of the last _analyze_trajectory
    pos,                    \* _get_zone: its argument
    seen,                   \* history: the detections read that are no person
    seed,                   \* the state the generator was seeded to
    earlier,                \* what the run before this one returned
    run,                    \* the number of the run in progress
    peer,                   \* the locals of the suspended run
    video                   \* the detections handed to each run

vars == <<pc, players, last_player_positions, player_id, ball, frame_idx,
          lastAssign, nread, ball_track, i, shot_id, shots, result, rng, window, verdict,
          pos, seen, seed, earlier, run, peer, video>>

trackVars == <<players, last_player_positions, player_id, ball, frame_idx, lastAssign,
               nread>>
scanVars == <<ball_track, i, shot_id>>
runVars == <<seed, earlier, run, peer, video>>

Abs(n) == IF n < 0 THEN -n ELSE n
Min(a, b) == IF a < b THEN a ELSE b
Max(a, b) == IF a > b THEN a ELSE b

(***************************************************************************)
(* Frame geometry: the literals 1920 and 1080 of analysis.py.              *)
(***************************************************************************)
FrameWidth == 1920
FrameHeight == 1080

(***************************************************************************)
(* AnalysisService.__init__: self.zones, in declaration order (a Python    *)
(* dict iterates in insertion order).  Ranges are in hundredths.           *)
(***************************************************************************)
zones ==
    << [name |-> "paint",        x_lo |-> 35, x_hi |-> 65,  y_lo |-> 0,  y_hi |-> 25],
       [name |-> "left-corner",  x_lo |-> 0,  x_hi |-> 25,  y_lo |-> 60, y_hi |-> 100],
       [name |-> "right-corner", x_lo |-> 75, x_hi |-> 100, y_lo |-> 60, y_hi |-> 100],
       [name |-> "left-wing",    x_lo |-> 0,  x_hi |-> 35,  y_lo |-> 25, y_hi |-> 60],
       [name |-> "right-wing",   x_lo |-> 65, x_hi |-> 100, y_lo |-> 25, y_hi |-> 60],
       [name |-> "top-key",      x_lo |-> 35, x_hi |-> 65,  y_lo |-> 40, y_hi |-> 70],
       [name |-> "mid-range",    x_lo |-> 25, x_hi |-> 75,  y_lo |-> 25, y_hi |-> 40] >>

ZoneNames == {zones[k].name : k \in 1..Len(zones)}

\* x_range[0] <= nx <= x_range[1] and y_range[0] <= ny <= y_range[1], with
\* nx = x / 1920 and ny = y / 1080 (cross-multiplied).
InZone(z, x, y) ==
    /\ z.x_lo * FrameWidth <= x * 100
    /\ x * 100 <= z.x_hi * FrameWidth
    /\ z.y_lo * FrameHeight <= y * 100
    /\ y * 100 <= z.y_hi * FrameHeight

\* The for loop of _get_zone from the k-th zone on: the first match returns.
RECURSIVE ZoneFrom(_, _, _)
ZoneFrom(k, x, y) ==
    IF k > Len(zones) THEN "mid-range"
    ELSE IF InZone(zones[k], x, y) THEN zones[k].name
    ELSE ZoneFrom(k + 1, x, y)

\* A plausible slip: the last matching rectangle wins.
RECURSIVE ZoneLastFrom(_, _, _)
ZoneLastFrom(k, x, y) ==
    IF k < 1 THEN "mid-range"
    ELSE IF InZone(zones[k], x, y) THEN zones[k].name
    ELSE ZoneLastFrom(k - 1, x, y)

GetZoneLastMatch(x, y) == ZoneLastFrom(Len(zones), x, y)

GetZone(x, y) == ZoneFrom(1, x, y)

(***************************************************************************)
(* Inputs of the zone classifier: pixel positions on and around every      *)
(* rectangle edge, and outside the frame.                                  *)
(***************************************************************************)
ZoneXs == {-10, 0, 192, 480, 500, 672, 960, 1248, 1300, 1440, 1920, 2000}
ZoneYs == {-10, 0, 108, 270, 300, 432, 500, 648, 756, 864, 972, 1080}

(***************************************************************************)
(* The process-wide numpy generator.  Its state is a residue; a draw of    *)
(* np.random.random() is rng / RandMod in [0, 1) and steps the state.      *)
(* The generator is seeded outside the pipeline: its state is unknown      *)
(* (Unseeded) until the first draw, which finds any state of Seeds, the    *)
(* first NumSeeds states of the generator's cycle.                         *)
(***************************************************************************)
RandMod == 20
RandStep == 7
Unseeded == -1
NumSeeds == 4
NextRng(r) == (r + RandStep) % RandMod
\* The state after n draws.
RngAfter(r, n) == (r + n * RandStep) % RandMod
Seeds == {RngAfter(0, k) : k \in 0..(NumSeeds - 1)}

(***************************************************************************)
(* _analyze_trajectory.  A window is a sequence of ball samples            *)
(* [frame, timestamp, x, y]; Python's window[k] is w[k + 1].               *)
(***************************************************************************)
\* np.argmin([p["y"] for p in window]): the first index (0-based) of the least y.
ArgMinY(w) ==
    CHOOSE k \in 0..(Len(w) - 1) :
        /\ \A j \in 0..(Len(w) - 1) : w[k + 1].y <= w[j + 1].y
        /\ \A j \in 0..(k - 1) : w[j + 1].y > w[k + 1].y

\* all(y_values[i] > y_values[i + 1] for i in range(min(3, len(y_values) - 1)))
\* with y_values the y of window[:5].
UpwardMotion(w) ==
    LET n == Min(5, Len(w))
    IN  \A k \in 0..(Min(3, n - 1) - 1) : w[k + 1].y > w[k + 2].y

\* abs(x / 1920 - 0.5) < 0.1 on doubles: 0.6 - 0.5 and 0.5 - 0.4 round below
\* the double 0.1, so the columns 768 and 1152 pass.
HoopDistLt10(x) == 5 * Abs(2 * x - FrameWidth) <= FrameWidth
\* abs(x / 1920 - 0.5) > 0.15 on doubles: 0.65 - 0.5 and 0.5 - 0.35 round above
\* the double 0.15, so the columns 672 and 1248 pass.
HoopDistGt15(x) == 20 * Abs(2 * x - FrameWidth) >= 6 * FrameWidth
\* abs(x / 1920 - 0.5) < 0.2 on doubles: 0.7 - 0.5 rounds below the double 0.2
\* (column 1344 passes), 0.5 - 0.3 is the double 0.2 (column 576 does not).
HoopDistLt20(x) == 5 * Abs(2 * x - FrameWidth) < 2 * FrameWidth \/ 10 * x = 7 * FrameWidth
\* abs(e / 1920 - 0.5) < abs(s / 1920 - 0.5): exact unless e and s mirror each
\* other about the centre line (e + s = 1920), which the inputs avoid.
HoopCloser(e, s) == Abs(2 * e - FrameWidth) < Abs(2 * s - FrameWidth)

\* A plausible slip: "and" for "or".
MovesTowardHoopBoth(w) ==
    /\ HoopCloser(w[Len(w)].x, w[1].x)
    /\ HoopDistLt20(w[Len(w)].x)

\* moves_toward_hoop
MovesTowardHoop(w) ==
    \/ HoopCloser(w[Len(w)].x, w[1].x)
    \/ HoopDistLt20(w[Len(w)].x)

\* final_y < 0.15 and final_y > 0.2 with final_y = y / 1080.
FinalYLt15(y) == 100 * y < 15 * FrameHeight
FinalYGt20(y) == 100 * y > 20 * FrameHeight

\* np.random.random() > 0.45
CoinMake(r) == 100 * r > 45 * RandMod

\* A plausible slip: the peak may be the second-to-last sample.
PeakBeforeEndLoose(w) == ArgMinY(w) <= Len(w) - 2

\* peak_idx < len(window) - 2
PeakBeforeEnd(w) == ArgMinY(w) < Len(w) - 2

\* A plausible slip: a window that is neither a clear make nor a clear miss is
\* given the outcome "unknown" and no draw is taken.
OutcomeUndecided(w, r) ==
    LET last == w[Len(w)]
    IN  IF FinalYLt15(last.y) /\ HoopDistLt10(last.x) /\ PeakBeforeEnd(w)
            THEN [outcome |-> "make", rng |-> r]
        ELSE IF FinalYGt20(last.y) \/ HoopDistGt15(last.x)
            THEN [outcome |-> "miss", rng |-> r]
        ELSE [outcome |-> "unknown", rng |-> r]

\* Lines 176-191: the outcome of a qualifying window, and the generator state
\* after it (a draw is taken only on the last line).
Outcome(w, r) ==
    LET last == w[Len(w)]
    IN  IF FinalYLt15(last.y) /\ HoopDistLt10(last.x) /\ PeakBeforeEnd(w)
            THEN [outcome |-> "make", rng |-> r]
        ELSE IF FinalYGt20(last.y) \/ HoopDistGt15(last.x)
            THEN [outcome |-> "miss", rng |-> r]
        ELSE [outcome |-> IF CoinMake(r) THEN "make" ELSE "miss", rng |-> NextRng(r)]

NotShot(r) == [is_shot |-> FALSE, outcome |-> "unknown", rng |-> r]

\* A plausible slip: the toward-hoop test is skipped.
AnalyzeTrajectoryNoHoop(w, r) ==
    IF Len(w) < 5 THEN NotShot(r)
    ELSE IF ~UpwardMotion(w) THEN NotShot(r)
    ELSE LET o == Outcome(w, r)
         IN  [is_shot |-> TRUE, outcome |-> o.outcome, rng |-> o.rng]

\* _analyze_trajectory(window) with the generator in state r (r is read only
\* when the draw is taken).
AnalyzeTrajectory(w, r) ==
    IF Len(w) < 5 THEN NotShot(r)
    ELSE IF ~UpwardMotion(w) THEN NotShot(r)
    ELSE IF ~MovesTowardHoop(w) THEN NotShot(r)
    ELSE LET o == Outcome(w, r)
         IN  [is_shot |-> TRUE, outcome |-> o.outcome, rng |-> o.rng]

(***************************************************************************)
(* _calculate_shot_confidence, in units of 1/192000.                       *)
(***************************************************************************)
ConfScale == 192000

\* A plausible slip: the proximity bonus is left out.
ShotConfidenceNoProximity(w) ==
    LET base_confidence == (7 * ConfScale) \div 10
        point_bonus == Min((Len(w) * ConfScale) \div 15, (15 * ConfScale) \div 100)
    IN  Min(base_confidence + point_bonus, (98 * ConfScale) \div 100)

\* A plausible slip: the sum is returned without the cap of 0.98.
ShotConfidenceUncapped(w) ==
    LET base_confidence == (7 * ConfScale) \div 10
        point_bonus == Min((Len(w) * ConfScale) \div 15, (15 * ConfScale) \div 100)
        distance_to_hoop == (Abs(2 * w[Len(w)].x - FrameWidth) * ConfScale) \div (2 * FrameWidth)
        proximity_bonus == Max(0, (15 * ConfScale) \div 100 - distance_to_hoop)
    IN  base_confidence + point_bonus + proximity_bonus

ShotConfidence(w) ==
    LET base_confidence == (7 * ConfScale) \div 10
        \* min(len(window) / 15, 0.15)
        point_bonus == Min((Len(w) * ConfScale) \div 15, (15 * ConfScale) \div 100)
        \* abs(final_x - 0.5)
        distance_to_hoop == (Abs(2 * w[Len(w)].x - FrameWidth) * ConfScale) \div (2 * FrameWidth)
        proximity_bonus == Max(0, (15 * ConfScale) \div 100 - distance_to_hoop)
    IN  Min(base_confidence + point_bonus + proximity_bonus, (98 * ConfScale) \div 100)

(***************************************************************************)
(* Ball samples and ShotEvent records.                                     *)
(***************************************************************************)
\* Frames are read every FrameStep-th ("balanced" frame_skip); a timestamp is
\* frame / 30 seconds, that is the frame number in units of 1/30 s.
FrameStep == 2

Sample(k, x, y) ==
    [frame |-> FrameStep * k, timestamp |-> FrameStep * k, x |-> x, y |-> y]

\* The ball stream whose k-th sample (0-based) is at xys[k + 1].
MkTrack(xys) == [k \in 1..Len(xys) |-> Sample(k - 1, xys[k][1], xys[k][2])]

\* Lines 113-127: the ShotEvent of a qualifying window.
DetectedShot(id, w, outcome) ==
    [id |-> id,
     frame_start |-> w[1].frame,
     frame_end |-> w[Len(w)].frame,
     release_x |-> w[1].x * 100,
     release_y |-> w[1].y * 100,
     outcome |-> outcome,
     zone |-> GetZone(w[1].x, w[1].y),
     confidence |-> ShotConfidence(w),
     timestamp |-> w[1].timestamp,
     trajectory |-> [k \in 1..Len(w) |-> <<w[k].x, w[k].y>>]]

(***************************************************************************)
(* _generate_mock_shots: 20 shots, five draws each (zone, x, y, outcome,   *)
(* confidence).                                                            *)
(***************************************************************************)
MockCount == 20

\* zones / zone_weights as cumulative percent, with the zone's centre and
\* half-spread (percent of the frame) and make probability (percent).
MockZones ==
    << [zone |-> "right-wing",   cum |-> 20,  cx |-> 75, dx |-> 10, cy |-> 40, dy |-> 15, make |-> 45],
       [zone |-> "left-wing",    cum |-> 40,  cx |-> 25, dx |-> 10, cy |-> 40, dy |-> 15, make |-> 42],
       [zone |-> "top-key",      cum |-> 55,  cx |-> 50, dx |-> 10, cy |-> 55, dy |-> 10, make |-> 40],
       [zone |-> "paint",        cum |-> 70,  cx |-> 50, dx |-> 15, cy |-> 20, dy |-> 10, make |-> 55],
       [zone |-> "left-corner",  cum |-> 80,  cx |-> 15, dx |-> 5,  cy |-> 75, dy |-> 10, make |-> 35],
       [zone |-> "right-corner", cum |-> 90,  cx |-> 85, dx |-> 5,  cy |-> 75, dy |-> 10, make |-> 35],
       [zone |-> "mid-range",    cum |-> 100, cx |-> 50, dx |-> 20, cy |-> 35, dy |-> 10, make |-> 38] >>

\* np.random.choice(zones, p=zone_weights) on the draw r / RandMod.
MockZoneOf(r) ==
    MockZones[CHOOSE k \in 1..Len(MockZones) :
        /\ 100 * r < MockZones[k].cum * RandMod
        /\ \A j \in 1..(k - 1) : 100 * r >= MockZones[j].cum * RandMod]

\* c + np.random.uniform(-d, d), in units of 1/dim percent.
MockCoord(c, d, r, dim) == (c - d) * dim + (2 * d * r * dim) \div RandMod

\* The i-th shot of the loop (i = 0..19) with the generator in state r.
MockShot(k, r) ==
    LET z == MockZoneOf(r)
        r1 == RngAfter(r, 1)
        r2 == RngAfter(r, 2)
        r3 == RngAfter(r, 3)
        r4 == RngAfter(r, 4)
    IN  [id |-> k + 1,
         frame_start |-> k * 150,
         frame_end |-> k * 150 + 30,
         release_x |-> MockCoord(z.cx, z.dx, r1, FrameWidth),
         release_y |-> MockCoord(z.cy, z.dy, r2, FrameHeight),
         outcome |-> IF 100 * r3 < z.make * RandMod THEN "make" ELSE "miss",
         zone |-> z.zone,
         \* 0.85 + np.random.uniform(0, 0.1)
         confidence |-> (85 * ConfScale) \div 100 + (10 * ConfScale * r4) \div (100 * RandMod),
         timestamp |-> k * 5 * 30,
         trajectory |-> << >>]

GenerateMockShots(r) ==
    [shots |-> [k \in 1..MockCount |-> MockShot(k - 1, RngAfter(r, 5 * (k - 1)))],
     rng |-> RngAfter(r, 5 * MockCount)]

(***************************************************************************)
(* _detect_shots, one action per step of the scan.                         *)
(***************************************************************************)
\* ball_track[i:i + 15]
WindowAt(track, k) == SubSeq(track, k + 1, Min(k + 15, Len(track)))

\* The generator state a draw finds: any seed while unseeded.
DrawFrom(s) == IF rng = Unseeded THEN s ELSE rng

\* Lines 94-99: fewer than 10 samples, the mock shots are returned.
DetectSparse ==
    /\ pc = "detect"
    /\ Len(ball_track) < 10
    /\ \E s \in Seeds :
         LET m == GenerateMockShots(DrawFrom(s))
         IN  /\ result' = m.shots
             /\ rng' = m.rng
    /\ pc' = "done"
    /\ UNCHANGED <<trackVars, scanVars, shots, window, verdict, pos, seen, runVars>>

\* Lines 101-103: the scan starts.
DetectBegin ==
    /\ pc = "detect"
    /\ ~(Len(ball_track) < 10)
    /\ i' = 0
    /\ shot_id' = 1
    /\ shots' = << >>
    /\ pc' = "scan"
    /\ UNCHANGED <<trackVars, ball_track, result, rng, window, verdict, pos, seen, runVars>>

\* A plausible slip: shot_id is not incremented.
ScanStepSameId ==
    /\ pc = "scan"
    /\ i < Len(ball_track) - 5
    /\ \E s \in Seeds :
         LET w == WindowAt(ball_track, i)
             a == AnalyzeTrajectory(w, DrawFrom(s))
         IN  /\ window' = w
             /\ verdict' = [is_shot |-> a.is_shot, outcome |-> a.outcome]
             /\ rng' = IF a.rng = DrawFrom(s) THEN rng ELSE a.rng
             /\ IF Len(w) >= 5 /\ a.is_shot
                    THEN /\ shots' = Append(shots, DetectedShot(shot_id, w, a.outcome))
                         /\ i' = i + Len(w)
                         /\ UNCHANGED shot_id
                    ELSE /\ i' = i + 1
                         /\ UNCHANGED <<shots, shot_id>>
    /\ UNCHANGED <<trackVars, ball_track, result, pc, pos, seen, runVars>>

\* A plausible slip: a qualifying window advances the scan by one sample.
ScanStepOverlap ==
    /\ pc = "scan"
    /\ i < Len(ball_track) - 5
    /\ \E s \in Seeds :
         LET w == WindowAt(ball_track, i)
             a == AnalyzeTrajectory(w, DrawFrom(s))
         IN  /\ window' = w
             /\ verdict' = [is_shot |-> a.is_shot, outcome |-> a.outcome]
             /\ rng' = IF a.rng = DrawFrom(s) THEN rng ELSE a.rng
             /\ IF Len(w) >= 5 /\ a.is_shot
                    THEN /\ shots' = Append(shots, DetectedShot(shot_id, w, a.outcome))
                         /\ shot_id' = shot_id + 1
                         /\ i' = i + 1
                    ELSE /\ i' = i + 1
                         /\ UNCHANGED <<shots, shot_id>>
    /\ UNCHANGED <<trackVars, ball_track, result, pc, pos, seen, runVars>>

\* Lines 105-138: one iteration of the while loop (the await at its end
\* changes nothing of this run).
ScanStep ==
    /\ pc = "scan"
    /\ i < Len(ball_track) - 5
    /\ \E s \in Seeds :
         LET w == WindowAt(ball_track, i)
             a == AnalyzeTrajectory(w, DrawFrom(s))
         IN  /\ window' = w
             /\ verdict' = [is_shot |-> a.is_shot, outcome |-> a.outcome]
             /\ rng' = IF a.rng = DrawFrom(s) THEN rng ELSE a.rng
             /\ IF Len(w) >= 5 /\ a.is_shot
                    THEN /\ shots' = Append(shots, DetectedShot(shot_id, w, a.outcome))
                         /\ shot_id' = shot_id + 1
                         /\ i' = i + Len(w)
                    ELSE /\ i' = i + 1
                         /\ UNCHANGED <<shots, shot_id>>
    /\ UNCHANGED <<trackVars, ball_track, result, pc, pos, seen, runVars>>

\* A plausible slip: no fallback when the scan found nothing.
ScanEndNoFallback ==
    /\ pc = "scan"
    /\ ~(i < Len(ball_track) - 5)
    /\ result' = shots
    /\ pc' = "done"
    /\ UNCHANGED <<trackVars, scanVars, shots, rng, window, verdict, pos, seen, runVars>>

\* Lines 140-144: the loop is over; no shot found gives the mock shots.
ScanEnd ==
    /\ pc = "scan"
    /\ ~(i < Len(ball_track) - 5)
    /\ \E s \in Seeds :
         IF shots = << >>
             THEN LET m == GenerateMockShots(DrawFrom(s))
                  IN  /\ result' = m.shots
                      /\ rng' = m.rng
             ELSE /\ result' = shots
                  /\ UNCHANGED rng
    /\ pc' = "done"
    /\ UNCHANGED <<trackVars, scanVars, shots, window, verdict, pos, seen, runVars>>

(***************************************************************************)
(* _analyze_trajectory and _calculate_shot_confidence on one window, as    *)
(* lines 110-114 call them.                                                *)
(***************************************************************************)
TrajAnalyze ==
    /\ pc = "analyze"
    /\ \E s \in Seeds :
         LET a == AnalyzeTrajectory(window, DrawFrom(s))
         IN  /\ verdict' = [is_shot |-> a.is_shot, outcome |-> a.outcome]
             /\ rng' = IF a.rng = DrawFrom(s) THEN rng ELSE a.rng
    /\ pc' = "analyzed"
    /\ UNCHANGED <<trackVars, scanVars, shots, result, window, pos, seen, runVars>>

TrajConfidence ==
    /\ pc = "analyzed"
    /\ verdict.is_shot
    /\ result' = ShotConfidence(window)
    /\ pc' = "scored"
    /\ UNCHANGED <<trackVars, scanVars, shots, rng, window, verdict, pos, seen, runVars>>

(***************************************************************************)
(* _get_zone on one position.                                              *)
(***************************************************************************)
ClassifyZone ==
    /\ pc = "zone"
    /\ result' = GetZone(pos[1], pos[2])
    /\ pc' = "zoned"
    /\ UNCHANGED <<trackVars, scanVars, shots, rng, window, verdict, pos, seen, runVars>>

(***************************************************************************)
(* DetectionService.track_objects, one action per detection read.  A       *)
(* sample's bbox is the detection's, carried unread, and is left out.      *)
(***************************************************************************)
\* The detections of one run: at most MaxDets objects in at most MaxFrames frames.
MaxDets == 3
MaxFrames == 3
NoMatch == -1
Inf == -1

\* np.sqrt(dx**2 + dy**2) is compared through its square: the square root is
\* increasing and separates the integers these sums are.
DistSq(p, q) == (p[1] - q[1]) * (p[1] - q[1]) + (p[2] - q[2]) * (p[2] - q[2])

\* A plausible slip: dist <= 100.
CloserInclusive(d, min_dist) == d <= 100 * 100 /\ (min_dist = Inf \/ d < min_dist)

\* dist < 100 and dist < min_dist, min_dist being Inf or a squared distance.
Closer(d, min_dist) == d < 100 * 100 /\ (min_dist = Inf \/ d < min_dist)

\* A plausible slip: a track that got no sample in the frame before the one at
\* hand is no candidate any more.
RECURSIVE MatchFromLive(_, _, _, _, _)
MatchFromLive(pid, last, p, matched_id, min_dist) ==
    IF pid >= player_id THEN matched_id
    ELSE LET dist == DistSq(p, last[pid])
             live == players[pid][Len(players[pid])].frame + FrameStep >= frame_idx
         IN  IF live /\ Closer(dist, min_dist)
                 THEN MatchFromLive(pid + 1, last, p, pid, dist)
                 ELSE MatchFromLive(pid + 1, last, p, matched_id, min_dist)

\* Lines 256-263: the loop over last_player_positions from track pid on.  The
\* dict is iterated in insertion order, which is the order of the track ids.
RECURSIVE MatchFrom(_, _, _, _, _)
MatchFrom(pid, last, p, matched_id, min_dist) ==
    IF pid >= player_id THEN matched_id
    ELSE LET dist == DistSq(p, last[pid])
         IN  IF Closer(dist, min_dist)
                 THEN MatchFrom(pid + 1, last, p, pid, dist)
                 ELSE MatchFrom(pid + 1, last, p, matched_id, min_dist)

PlayerSample(p) ==
    [frame |-> frame_idx, timestamp |-> frame_idx, x |-> p[1], y |-> p[2]]

\* A plausible slip: player_id is not incremented, a new track takes the id of
\* the track before it.
TrackPersonNoIncrement(p) ==
    /\ pc = "track"
    /\ nread < MaxDets
    /\ nread' = nread + 1
    /\ LET m == MatchFrom(0, last_player_positions, p, NoMatch, Inf)
           matched_id == IF m = NoMatch THEN player_id ELSE m
       IN  /\ player_id' = player_id
           /\ players' =
                [pid \in (DOMAIN players) \cup {matched_id} |->
                    IF pid = matched_id
                        THEN Append(IF m = NoMatch THEN << >> ELSE players[pid], PlayerSample(p))
                        ELSE players[pid]]
           /\ last_player_positions' =
                [pid \in (DOMAIN players) \cup {matched_id} |->
                    IF pid = matched_id THEN p ELSE last_player_positions[pid]]
           /\ lastAssign' = [pos |-> p, before |-> last_player_positions,
                             matched |-> matched_id, created |-> m = NoMatch]
    /\ UNCHANGED <<pc, ball, frame_idx, ball_track, i, shot_id, shots, result, rng,
                   window, verdict, pos, seen, runVars>>

\* A plausible slip: last_player_positions is set when a track is created and
\* left alone when a detection joins the track.
TrackPersonStalePosition(p) ==
    /\ pc = "track"
    /\ nread < MaxDets
    /\ nread' = nread + 1
    /\ LET m == MatchFrom(0, last_player_positions, p, NoMatch, Inf)
           matched_id == IF m = NoMatch THEN player_id ELSE m
       IN  /\ player_id' = IF m = NoMatch THEN player_id + 1 ELSE player_id
           /\ players' =
                [pid \in 0..(player_id' - 1) |->
                    IF pid = matched_id
                        THEN Append(IF m = NoMatch THEN << >> ELSE players[pid], PlayerSample(p))
                        ELSE players[pid]]
           /\ last_player_positions' =
                [pid \in 0..(player_id' - 1) |->
                    IF pid = matched_id /\ m = NoMatch THEN p ELSE last_player_positions[pid]]
           /\ lastAssign' = [pos |-> p, before |-> last_player_positions,
                             matched |-> matched_id, created |-> m = NoMatch]
    /\ UNCHANGED <<pc, ball, frame_idx, ball_track, i, shot_id, shots, result, rng,
                   window, verdict, pos, seen, runVars>>

\* Lines 249-277: a person detection at p.
TrackPerson(p) ==
    /\ pc = "track"
    /\ nread < MaxDets
    /\ nread' = nread + 1
    /\ LET m == MatchFrom(0, last_player_positions, p, NoMatch, Inf)
           matched_id == IF m = NoMatch THEN player_id ELSE m
       IN  /\ player_id' = IF m = NoMatch THEN player_id + 1 ELSE player_id
           /\ players' =
                [pid \in 0..(player_id' - 1) |->
                    IF pid = matched_id
                        THEN Append(IF m = NoMatch THEN << >> ELSE players[pid], PlayerSample(p))
                        ELSE players[pid]]
           /\ last_player_positions' =
                [pid \in 0..(player_id' - 1) |->
                    IF pid = matched_id THEN p ELSE last_player_positions[pid]]
           /\ lastAssign' = [pos |-> p, before |-> last_player_positions,
                             matched |-> matched_id, created |-> m = NoMatch]
    /\ UNCHANGED <<pc, ball, frame_idx, ball_track, i, shot_id, shots, result, rng,
                   window, verdict, pos, seen, runVars>>

\* The detection of class cls at p, as read in the frame at hand.
Detection(cls, p) == [class |-> cls, frame |-> frame_idx, pos |-> p]

\* Lines 279-286: a "sports ball" detection at p.
TrackBall(p) ==
    /\ pc = "track"
    /\ nread < MaxDets
    /\ nread' = nread + 1
    /\ ball' = Append(ball, PlayerSample(p))
    /\ seen' = Append(seen, Detection("sports ball", p))
    /\ UNCHANGED <<pc, players, last_player_positions, player_id, frame_idx, lastAssign,
                   ball_track, i, shot_id, shots, result, rng, window, verdict, pos,
                   runVars>>

\* Lines 248-286: a detection of any other class matches neither branch.
TrackIgnored(cls, p) ==
    /\ pc = "track"
    /\ nread < MaxDets
    /\ nread' = nread + 1
    /\ seen' = Append(seen, Detection(cls, p))
    /\ UNCHANGED <<pc, players, last_player_positions, player_id, ball, frame_idx,
                   lastAssign, ball_track, i, shot_id, shots, result, rng, window,
                   verdict, pos, runVars>>

\* Lines 244-246, 288-290: the next frame of the detections is read.
TrackNextFrame ==
    /\ pc = "track"
    /\ frame_idx < FrameStep * (MaxFrames - 1)
    /\ frame_idx' = frame_idx + FrameStep
    /\ UNCHANGED <<pc, players, last_player_positions, player_id, ball, lastAssign,
                   nread, ball_track, i, shot_id, shots, result, rng, window, verdict,
                   pos, seen, runVars>>

\* Line 292: the detections are exhausted.
TrackReturn ==
    /\ pc = "track"
    /\ result' = [players |-> players, ball |-> ball]
    /\ pc' = "tracked"
    /\ UNCHANGED <<trackVars, scanVars, shots, rng, window, verdict, pos, seen, runVars>>

(***************************************************************************)
(* _calculate_statistics.  Percentages are in tenths, avgReleaseTime in    *)
(* hundredths of a second.                                                 *)
(***************************************************************************)
\* sum(1 for s in shots if s.outcome == "make")
CountMakes(list) == Cardinality({k \in 1..Len(list) : list[k].outcome = "make"})
CountMisses(list) == Cardinality({k \in 1..Len(list) : list[k].outcome = "miss"})

three_zones == {"left-corner", "right-corner", "left-wing", "right-wing", "top-key"}
\* three_shots and three_makes
CountThree(list) == Cardinality({k \in 1..Len(list) : list[k].zone \in three_zones})
CountThreeMakes(list) ==
    Cardinality({k \in 1..Len(list) :
                    list[k].zone \in three_zones /\ list[k].outcome = "make"})

\* round(num / den * 100, 1) in tenths: to the nearest tenth, a tie to the even
\* one (no list of fewer than 16 shots has a tie).
RoundPct(num, den) ==
    LET q == (1000 * num) \div den
        rem == (1000 * num) % den
    IN  IF 2 * rem > den THEN q + 1
        ELSE IF 2 * rem = den THEN q + (q % 2)
        ELSE q

\* Lines 294-300: the zone_stats dict after the first n shots, its items in
\* insertion order (the order in which the zones first occur).
RECURSIVE ZoneStatsOf(_, _)
ZoneStatsOf(list, n) ==
    IF n = 0 THEN << >>
    ELSE LET prev == ZoneStatsOf(list, n - 1)
             shot == list[n]
             made == IF shot.outcome = "make" THEN 1 ELSE 0
         IN  IF \E k \in 1..Len(prev) : prev[k].zone = shot.zone
                 THEN [k \in 1..Len(prev) |->
                         IF prev[k].zone = shot.zone
                             THEN [zone |-> shot.zone,
                                   makes |-> prev[k].makes + made,
                                   attempts |-> prev[k].attempts + 1]
                             ELSE prev[k]]
                 ELSE Append(prev, [zone |-> shot.zone, makes |-> made, attempts |-> 1])

\* key=lambda x: makes / attempts if attempts > 2 else 0, as a fraction.
HotKey(z) == IF z.attempts > 2 THEN <<z.makes, z.attempts>> ELSE <<0, 1>>
KeyLess(a, b) == a[1] * b[2] < b[1] * a[2]

\* A plausible slip: the default is the first zone declared, not "mid-range".
HotZoneOfFirstDeclared(stats) ==
    IF stats = << >> THEN zones[1].name
    ELSE stats[CHOOSE k \in 1..Len(stats) :
            /\ \A j \in 1..Len(stats) : ~KeyLess(HotKey(stats[k]), HotKey(stats[j]))
            /\ \A j \in 1..(k - 1) : KeyLess(HotKey(stats[j]), HotKey(stats[k]))].zone

\* max(zone_stats.items(), key=..., default=("mid-range", ...))[0]: the first
\* item no other item's key exceeds.
HotZoneOf(stats) ==
    IF stats = << >> THEN "mid-range"
    ELSE stats[CHOOSE k \in 1..Len(stats) :
            /\ \A j \in 1..Len(stats) : ~KeyLess(HotKey(stats[k]), HotKey(stats[j]))
            /\ \A j \in 1..(k - 1) : KeyLess(HotKey(stats[j]), HotKey(stats[k]))].zone

\* zone.replace("-", " ").title() on the seven zone names.
DisplayName(zone) ==
    CASE zone = "paint" -> "Paint"
      [] zone = "left-corner" -> "Left Corner"
      [] zone = "right-corner" -> "Right Corner"
      [] zone = "left-wing" -> "Left Wing"
      [] zone = "right-wing" -> "Right Wing"
      [] zone = "top-key" -> "Top Key"
      [] zone = "mid-range" -> "Mid Range"

\* round(0.75 + np.random.uniform(0, 0.15), 2) on the draw r / RandMod; at a
\* tie the double lies above it for the draws 2, 6 and 18 and below otherwise.
AvgReleaseTime(r) ==
    LET v == 7500 + (1500 * r) \div RandMod
    IN  IF v % 100 = 50 THEN v \div 100 + (IF r \in {2, 6, 18} THEN 1 ELSE 0)
        ELSE (v + 50) \div 100

\* A plausible slip: misses counts the shots whose outcome is "miss".
CalculateStatisticsCountMisses(list, r) ==
    LET total == Len(list)
        makes == CountMakes(list)
        three == CountThree(list)
    IN  [totalShots |-> total,
         makes |-> makes,
         misses |-> CountMisses(list),
         fieldGoalPercentage |-> IF total > 0 THEN RoundPct(makes, total) ELSE 0,
         threePointPercentage |->
             IF three > 0 THEN RoundPct(CountThreeMakes(list), three) ELSE 0,
         hotZone |-> DisplayName(HotZoneOf(ZoneStatsOf(list, total))),
         avgReleaseTime |-> AvgReleaseTime(r)]

\* _calculate_statistics(shots) with the generator in state r.
CalculateStatistics(list, r) ==
    LET total == Len(list)
        makes == CountMakes(list)
        three == CountThree(list)
    IN  [totalShots |-> total,
         makes |-> makes,
         misses |-> total - makes,
         fieldGoalPercentage |-> IF total > 0 THEN RoundPct(makes, total) ELSE 0,
         threePointPercentage |->
             IF three > 0 THEN RoundPct(CountThreeMakes(list), three) ELSE 0,
         hotZone |-> DisplayName(HotZoneOf(ZoneStatsOf(list, total))),
         avgReleaseTime |-> AvgReleaseTime(r)]

\* key=lambda x: makes / attempts if attempts > 0 else 0 of two items: a's
\* key is below b's.
RateLess(a, b) == a.makes * b.attempts < b.makes * a.attempts

\* sorted(zone_data.items(), key=..., reverse=True) of the first n items: by
\* make rate, highest first, items of equal rate in their order in the dict.
RECURSIVE SortedByRate(_, _)
SortedByRate(items, n) ==
    IF n = 0 THEN << >>
    ELSE LET prev == SortedByRate(items, n - 1)
             it == items[n]
             ahead == Cardinality({k \in 1..Len(prev) : ~RateLess(prev[k], it)})
         IN  SubSeq(prev, 1, ahead) \o <<it>> \o SubSeq(prev, ahead + 1, Len(prev))

\* Lines 334-343: the ZoneStat of one item of zone_data.
ZoneStat(d) ==
    [name |-> DisplayName(d.zone),
     attempts |-> d.attempts,
     makes |-> d.makes,
     percentage |-> IF d.attempts > 0 THEN RoundPct(d.makes, d.attempts) ELSE 0]

\* A plausible slip: the percentage is taken over all the shots of the list.
CalculateZoneStatsOverTotal(list) ==
    LET zone_data == ZoneStatsOf(list, Len(list))
        sorted == SortedByRate(zone_data, Len(zone_data))
    IN  [k \in 1..Len(sorted) |->
            [name |-> DisplayName(sorted[k].zone),
             attempts |-> sorted[k].attempts,
             makes |-> sorted[k].makes,
             percentage |-> RoundPct(sorted[k].makes, Len(list))]]

\* _calculate_zone_stats(shots): zone_data is built as zone_stats is in
\* _calculate_statistics.
CalculateZoneStats(list) ==
    LET zone_data == ZoneStatsOf(list, Len(list))
        sorted == SortedByRate(zone_data, Len(zone_data))
    IN  [k \in 1..Len(sorted) |-> ZoneStat(sorted[k])]

\* The ShotEvent lists aggregated: at most MaxShots shots, each of a zone of
\* StatZones with an outcome of StatOutcomes.
MaxShots == 6
StatZones == {"paint", "left-wing"}
StatOutcomes == {"make", "miss", "unknown"}
StatKinds == (StatZones \X {"make", "miss"}) \cup {<<"paint", "unknown">>}

\* A ShotEvent of the list handed to the aggregator; only its zone and outcome
\* are read there.
StatShot(id, zone, outcome) ==
    [id |-> id, frame_start |-> 0, frame_end |-> 0, release_x |-> 0, release_y |-> 0,
     outcome |-> outcome, zone |-> zone, confidence |-> 0, timestamp |-> 0,
     trajectory |-> << >>]

\* The caller's list grows by one ShotEvent.
StatAddShot(zone, outcome) ==
    /\ pc = "collect"
    /\ Len(shots) < MaxShots
    /\ shots' = Append(shots, StatShot(Len(shots) + 1, zone, outcome))
    /\ UNCHANGED <<pc, trackVars, scanVars, result, rng, window, verdict, pos, seen, runVars>>

\* statistics = self._calculate_statistics(shots)
StatCalculate ==
    /\ pc = "collect"
    /\ \E s \in Seeds :
         /\ result' = CalculateStatistics(shots, DrawFrom(s))
         /\ rng' = NextRng(DrawFrom(s))
    /\ pc' = "reported"
    /\ UNCHANGED <<trackVars, scanVars, shots, window, verdict, pos, seen, runVars>>

\* zones = self._calculate_zone_stats(shots)
StatZoneStats ==
    /\ pc = "collect"
    /\ result' = CalculateZoneStats(shots)
    /\ pc' = "zonestats"
    /\ UNCHANGED <<trackVars, scanVars, shots, rng, window, verdict, pos, seen, runVars>>

(***************************************************************************)
(* Inputs.                                                                 *)
(***************************************************************************)
\* Person positions: 50, 70, 100 and 150 px apart on a line, and (60, 80),
\* which is exactly 100 px from (0, 0).
PersonPos == {<<0, 0>>, <<50, 0>>, <<70, 0>>, <<100, 0>>, <<150, 0>>, <<60, 80>>}
BallPos == {<<960, 300>>, <<970, 290>>}
\* The classes of a detection other than "person" and "sports ball": the
\* class name "ball", and "unknown", the name of a class id that
\* DetectionService.class_names does not hold.
OtherClasses == {"ball", "unknown"}

Fill(n, y) == [k \in 1..n |-> y]
\* A run of samples at the ys, the last at column xe and the others at xs.
Block(xs, xe, ys) == [k \in 1..Len(ys) |-> <<IF k = Len(ys) THEN xe ELSE xs, ys[k]>>]
RiseYs == <<500, 400, 300, 200>>

\* The pieces ball streams are made of: rising 15- and 6-sample runs that end
\* at the hoop, wide of it, 0.1 from the centre line or in between, runs that
\* do not rise or do not move toward the hoop, and level runs of 1, 4 and 9
\* samples.
Blocks ==
    { Block(960, 960, RiseYs \o Fill(10, 100) \o <<108>>),
      Block(1900, 1728, RiseYs \o Fill(10, 100) \o <<108>>),
      Block(960, 960, RiseYs \o Fill(10, 100) \o <<190>>),
      Block(960, 1728, RiseYs \o Fill(10, 100) \o <<108>>),
      Block(960, 960, <<500, 400, 300, 300>> \o Fill(10, 100) \o <<108>>),
      Block(960, 960, RiseYs \o <<100, 108>>),
      Block(960, 960, <<500, 400, 300, 100, 150, 108>>),
      Block(1900, 1152, RiseYs \o <<100, 108>>),
      Block(960, 960, Fill(1, 300)),
      Block(960, 960, Fill(4, 300)),
      Block(960, 960, Fill(9, 300)) }

MaxBlocks == 3

RECURSIVE Concat(_)
Concat(bs) == IF bs = << >> THEN << >> ELSE bs[1] \o Concat(Tail(bs))

\* The ball streams: up to MaxBlocks pieces end to end.
BallStreams ==
    {MkTrack(Concat(bs)) : bs \in UNION {[1..n -> Blocks] : n \in 0..MaxBlocks}}

\* The windows handed to _analyze_trajectory: four head samples, then up to
\* MaxTail more; the last sample is at column xe, the others at xs.
MaxTail == 3
TrajHeads ==
    { <<500, 400, 300, 200>>, <<500, 400, 300, 105>>, <<500, 400, 300, 300>>,
      <<500, 400, 300, 350>>, <<500, 400, 400, 200>>, <<500, 500, 300, 200>>,
      <<400, 500, 300, 200>>, <<200, 200, 200, 200>> }
TailYs == {100, 108, 162, 216, 300}
StartXs == {960, 1536, 1900}
EndXs == {960, 1152, 1200, 1248, 1300, 1344, 1400, 1728}
TrajWindows ==
    {MkTrack(Block(xs, xe, h \o t)) :
        xs \in StartXs, xe \in EndXs, h \in TrajHeads,
        t \in UNION {[1..n -> TailYs] : n \in 1..MaxTail}}

(***************************************************************************)
(* Specifications: one per operation of the pipeline.                      *)
(***************************************************************************)
NoAssign == [pos |-> <<0, 0>>, before |-> << >>, matched |-> NoMatch, created |-> FALSE]
NoVerdict == [is_shot |-> FALSE, outcome |-> "unknown"]

\* The locals of a run that has not started.
Fresh ==
    /\ players = << >>
    /\ last_player_positions = << >>
    /\ player_id = 0
    /\ ball = << >>
    /\ frame_idx = 0
    /\ lastAssign = NoAssign
    /\ nread = 0
    /\ i = 0
    /\ shot_id = 1
    /\ shots = << >>
    /\ result = << >>
    /\ verdict = NoVerdict
    /\ seen = << >>

\* The state in which no operation has run: the generator is unseeded, and
\* the run is the first and only one.
Idle ==
    /\ Fresh
    /\ rng = Unseeded
    /\ seed = Unseeded
    /\ earlier = << >>
    /\ run = 1
    /\ peer = << >>
    /\ video = << >>

\* track_objects on any detections.
InitTrack ==
    /\ Idle
    /\ pc = "track"
    /\ ball_track = << >>
    /\ window = << >>
    /\ pos = <<0, 0>>

NextTrack ==
    \/ \E p \in PersonPos : TrackPerson(p)
    \/ \E p \in BallPos : TrackBall(p)
    \/ \E cls \in OtherClasses : TrackIgnored(cls, <<960, 300>>)
    \/ TrackNextFrame
    \/ TrackReturn

SpecTrack == InitTrack /\ [][NextTrack]_vars

\* _detect_shots on a ball stream.
InitShots ==
    /\ Idle
    /\ pc = "detect"
    /\ ball_track \in BallStreams
    /\ window = << >>
    /\ pos = <<0, 0>>

NextShots ==
    \/ DetectSparse
    \/ DetectBegin
    \/ ScanStep
    \/ ScanEnd

SpecShots == InitShots /\ [][NextShots]_vars

\* _analyze_trajectory and _calculate_shot_confidence on a window.
InitTraj ==
    /\ Idle
    /\ pc = "analyze"
    /\ ball_track = << >>
    /\ window \in TrajWindows
    /\ pos = <<0, 0>>

NextTraj ==
    \/ TrajAnalyze
    \/ TrajConfidence

SpecTraj == InitTraj /\ [][NextTraj]_vars

\* _get_zone on a position.
InitZone ==
    /\ Idle
    /\ pc = "zone"
    /\ ball_track = << >>
    /\ window = << >>
    /\ pos \in ZoneXs \X ZoneYs

NextZone == ClassifyZone

SpecZone == InitZone /\ [][NextZone]_vars

\* _calculate_statistics on a ShotEvent list.
InitStats ==
    /\ Idle
    /\ pc = "collect"
    /\ ball_track = << >>
    /\ window = << >>
    /\ pos = <<0, 0>>

NextStats ==
    \/ \E k \in StatKinds : StatAddShot(k[1], k[2])
    \/ StatCalculate
    \/ StatZoneStats

SpecStats == InitStats /\ [][NextStats]_vars

\* The ball streams of the runs that are repeated: up to two pieces end to end.
RunStreams ==
    {MkTrack(Concat(bs)) : bs \in UNION {[1..n -> Blocks] : n \in 0..2}}

\* A plausible slip: the second run is seeded with another seed.
RunAgainOtherSeed ==
    /\ pc = "done"
    /\ run = 1
    /\ earlier' = result
    /\ run' = 2
    /\ rng' = NextRng(seed)
    /\ pc' = "detect"
    /\ i' = 0
    /\ shot_id' = 1
    /\ shots' = << >>
    /\ result' = << >>
    /\ window' = << >>
    /\ verdict' = NoVerdict
    /\ UNCHANGED <<trackVars, ball_track, pos, seen, seed, peer, video>>

\* The detector is run a second time on the same stream, the generator seeded
\* again with the same seed; the first run's list is kept for comparison.
RunAgain ==
    /\ pc = "done"
    /\ run = 1
    /\ earlier' = result
    /\ run' = 2
    /\ rng' = seed
    /\ pc' = "detect"
    /\ i' = 0
    /\ shot_id' = 1
    /\ shots' = << >>
    /\ result' = << >>
    /\ window' = << >>
    /\ verdict' = NoVerdict
    /\ UNCHANGED <<trackVars, ball_track, pos, seen, seed, peer, video>>

\* Two runs of _detect_shots on one stream, each with the generator seeded to
\* the same seed.
InitSeeded ==
    /\ Fresh
    /\ seed \in Seeds
    /\ rng = seed
    /\ earlier = << >>
    /\ run = 1
    /\ peer = << >>
    /\ video = << >>
    /\ pc = "detect"
    /\ ball_track \in RunStreams
    /\ window = << >>
    /\ pos = <<0, 0>>

NextSeeded ==
    \/ DetectSparse
    \/ DetectBegin
    \/ ScanStep
    \/ ScanEnd
    \/ RunAgain

SpecSeeded == InitSeeded /\ [][NextSeeded]_vars

\* Lines 70-80: a ShotEvent in the output format.
ShotOut(shot) ==
    [id |-> shot.id, frame |-> shot.frame_start, x |-> shot.release_x,
     y |-> shot.release_y, outcome |-> shot.outcome, zone |-> shot.zone,
     confidence |-> shot.confidence, timestamp |-> shot.timestamp]

\* Lines 59-87: analyze_shots after _detect_shots has returned its list (in
\* result): statistics, zones and the shot list.  formMetrics is a fixed list
\* and is left out.
AnalyzeReport ==
    /\ pc = "done"
    /\ \E s \in Seeds :
         /\ result' = [statistics |-> CalculateStatistics(result, DrawFrom(s)),
                       shots |-> [k \in 1..Len(result) |-> ShotOut(result[k])],
                       zones |-> CalculateZoneStats(result)]
         /\ rng' = NextRng(DrawFrom(s))
    /\ pc' = "analysed"
    /\ UNCHANGED <<trackVars, scanVars, shots, window, verdict, pos, seen, runVars>>

\* analyze_shots is called a second time on the same tracks, the generator
\* being in the state the first call left it in.
AnalyzeAgain ==
    /\ pc = "analysed"
    /\ run = 1
    /\ earlier' = result
    /\ run' = 2
    /\ pc' = "detect"
    /\ i' = 0
    /\ shot_id' = 1
    /\ shots' = << >>
    /\ result' = << >>
    /\ window' = << >>
    /\ verdict' = NoVerdict
    /\ UNCHANGED <<trackVars, ball_track, rng, pos, seen, seed, peer, video>>

\* Two calls of analyze_shots on the same tracks.
InitAnalyze ==
    /\ Idle
    /\ pc = "detect"
    /\ ball_track \in RunStreams
    /\ window = << >>
    /\ pos = <<0, 0>>

NextAnalyze ==
    \/ DetectSparse
    \/ DetectBegin
    \/ ScanStep
    \/ ScanEnd
    \/ AnalyzeReport
    \/ AnalyzeAgain

SpecAnalyze == InitAnalyze /\ [][NextAnalyze]_vars

(***************************************************************************)
(* Two pipeline runs (track_objects, then _detect_shots) as two tasks of   *)
(* one event loop.  A run owns its locals; the numpy generator belongs to  *)
(* the process.  A task gives way at an await asyncio.sleep(0) only: after *)
(* a frame whose index is a multiple of 30 in track_objects, after a scan  *)
(* iteration that leaves i a multiple of 30 in _detect_shots.              *)
(***************************************************************************)
YieldEvery == 30

\* The locals of the run in progress, as kept while it is suspended.
Locals ==
    [pc |-> pc, players |-> players, last_player_positions |-> last_player_positions,
     player_id |-> player_id, ball |-> ball, frame_idx |-> frame_idx,
     lastAssign |-> lastAssign, nread |-> nread, ball_track |-> ball_track, i |-> i,
     shot_id |-> shot_id, shots |-> shots, result |-> result, window |-> window,
     verdict |-> verdict, seen |-> seen, seed |-> seed]

\* The locals of a run that has not read its first frame.
FreshLocals ==
    [pc |-> "pipe_track", players |-> << >>, last_player_positions |-> << >>,
     player_id |-> 0, ball |-> << >>, frame_idx |-> 0, lastAssign |-> NoAssign,
     nread |-> 0, ball_track |-> << >>, i |-> 0, shot_id |-> 1, shots |-> << >>,
     result |-> << >>, window |-> << >>, verdict |-> NoVerdict, seen |-> << >>,
     seed |-> Unseeded]

\* A video whose k-th frame (0-based, index FrameStep * k) holds the one
\* detection objs[k + 1], given as <<class, x, y>>.
MkVideo(objs) ==
    [k \in 1..Len(objs) |->
        [frame |-> FrameStep * (k - 1),
         object |-> [class |-> objs[k][1], pos |-> <<objs[k][2], objs[k][3]>>]]]

BallAt(xys) == [k \in 1..Len(xys) |-> <<"sports ball", xys[k][1], xys[k][2]>>]

\* The videos: a ball stream of 10 samples that is one ambiguous window; one
\* of 15 samples that is a make; two persons and a ball (too few samples);
\* 30 level samples and then an ambiguous window, long enough for the scan
\* and the tracker to give way more than once.
PipeVideos ==
    { MkVideo(BallAt(Block(960, 960, RiseYs \o Fill(5, 100) \o <<190>>))),
      MkVideo(BallAt(Block(960, 960, RiseYs \o Fill(10, 100) \o <<108>>))),
      MkVideo(<<<<"person", 0, 0>>, <<"person", 50, 0>>, <<"sports ball", 960, 300>>>>),
      MkVideo(BallAt(Block(960, 960, Fill(30, 300) \o RiseYs \o <<100, 108>>))) }

\* Lines 244-290 for the next frame of the run's video.
PipeFrame ==
    /\ pc = "pipe_track"
    /\ nread < Len(video[run])
    /\ LET fr == video[run][nread + 1]
           p == fr.object.pos
           sample == [frame |-> fr.frame, timestamp |-> fr.frame, x |-> p[1], y |-> p[2]]
           m == MatchFrom(0, last_player_positions, p, NoMatch, Inf)
           matched_id == IF m = NoMatch THEN player_id ELSE m
       IN  /\ frame_idx' = fr.frame
           /\ nread' = nread + 1
           /\ seed' = IF nread = 0 THEN rng ELSE seed
           /\ IF fr.object.class = "person"
                  THEN /\ player_id' = IF m = NoMatch THEN player_id + 1 ELSE player_id
                       /\ players' =
                            [pid \in 0..(player_id' - 1) |->
                                IF pid = matched_id
                                    THEN Append(IF m = NoMatch THEN << >> ELSE players[pid],
                                                sample)
                                    ELSE players[pid]]
                       /\ last_player_positions' =
                            [pid \in 0..(player_id' - 1) |->
                                IF pid = matched_id THEN p ELSE last_player_positions[pid]]
                       /\ lastAssign' = [pos |-> p, before |-> last_player_positions,
                                         matched |-> matched_id, created |-> m = NoMatch]
                       /\ UNCHANGED ball
                  ELSE /\ ball' = IF fr.object.class = "sports ball"
                                      THEN Append(ball, sample) ELSE ball
                       /\ UNCHANGED <<players, last_player_positions, player_id, lastAssign>>
    /\ UNCHANGED <<pc, scanVars, shots, result, rng, window, verdict, pos, seen, earlier,
                   run, peer, video>>

\* Line 292 and analysis.py line 95: track_objects returns the tracks and
\* _detect_shots is called with them.
PipeTracked ==
    /\ pc = "pipe_track"
    /\ nread = Len(video[run])
    /\ ball_track' = ball
    /\ seed' = IF nread = 0 THEN rng ELSE seed
    /\ pc' = "detect"
    /\ UNCHANGED <<players, last_player_positions, player_id, ball, frame_idx, lastAssign,
                   nread, i, shot_id, shots, result, rng, window, verdict, pos, seen,
                   earlier, run, peer, video>>

\* The run in progress is at an await asyncio.sleep(0).
AtYield ==
    \/ pc = "pipe_track" /\ nread > 0 /\ frame_idx % YieldEvery = 0
    \/ pc = "scan" /\ i > 0 /\ i % YieldEvery = 0

\* The event loop takes up the other task: when the run in progress gives
\* way or has returned, and the other has not returned.
Switch ==
    /\ AtYield \/ pc = "done"
    /\ peer.pc # "done"
    /\ peer' = Locals
    /\ run' = 3 - run
    /\ pc' = peer.pc
    /\ players' = peer.players
    /\ last_player_positions' = peer.last_player_positions
    /\ player_id' = peer.player_id
    /\ ball' = peer.ball
    /\ frame_idx' = peer.frame_idx
    /\ lastAssign' = peer.lastAssign
    /\ nread' = peer.nread
    /\ ball_track' = peer.ball_track
    /\ i' = peer.i
    /\ shot_id' = peer.shot_id
    /\ shots' = peer.shots
    /\ result' = peer.result
    /\ window' = peer.window
    /\ verdict' = peer.verdict
    /\ seen' = peer.seen
    /\ seed' = peer.seed
    /\ UNCHANGED <<rng, pos, earlier, video>>

\* Two runs on two videos; the generator is in some state.
InitPipe ==
    /\ Fresh
    /\ rng \in Seeds
    /\ seed = Unseeded
    /\ earlier = << >>
    /\ run = 1
    /\ peer = FreshLocals
    /\ video \in PipeVideos \X PipeVideos
    /\ pc = "pipe_track"
    /\ ball_track = << >>
    /\ window = << >>
    /\ pos = <<0, 0>>

NextPipe ==
    \/ PipeFrame
    \/ PipeTracked
    \/ DetectSparse
    \/ DetectBegin
    \/ ScanStep
    \/ ScanEnd
    \/ Switch

SpecPipe == InitPipe /\ [][NextPipe]_vars

(***************************************************************************)
(* Properties.                                                             *)
(***************************************************************************)
\* The square of the pixel distance between two positions.
SqDist(p, q) == (p[1] - q[1]) * (p[1] - q[1]) + (p[2] - q[2]) * (p[2] - q[2])
\* The tracks within 100 px of the last person detection, before it was assigned.
NearTracks ==
    {pid \in DOMAIN lastAssign.before :
        SqDist(lastAssign.pos, lastAssign.before[pid]) < 100 * 100}

\* C1: a person detection joins the track whose last position is nearest, if
\* and only if that distance is strictly below 100 px (of two tracks equally
\* near, the one with the lower id, met first); otherwise it starts a new
\* track.  50 px from the only track joins it, 150 px starts a second track.
C1_NearestTrack ==
    (pc = "track" /\ lastAssign.matched # NoMatch) =>
        LET a == lastAssign
            d(pid) == SqDist(a.pos, a.before[pid])
            sample == players[a.matched][Len(players[a.matched])]
        IN  /\ a.created <=> NearTracks = {}
            /\ a.created => /\ a.matched \notin DOMAIN a.before
                            /\ Len(players[a.matched]) = 1
            /\ ~a.created =>
                 /\ a.matched \in NearTracks
                 /\ \A q \in NearTracks :
                      d(a.matched) < d(q) \/ (d(a.matched) = d(q) /\ a.matched <= q)
            /\ sample.x = a.pos[1] /\ sample.y = a.pos[2]
            /\ last_player_positions[a.matched] = a.pos
            /\ (DOMAIN a.before = {0} /\ d(0) = 50 * 50) => (~a.created /\ a.matched = 0)
            /\ (DOMAIN a.before = {0} /\ d(0) = 150 * 150) => (a.created /\ a.matched = 1)

\* A detection midway between two tracks, both 50 px away, joined the first.
C1_Witness ==
    /\ pc = "track"
    /\ lastAssign.matched = 0
    /\ ~lastAssign.created
    /\ 1 \in NearTracks
    /\ SqDist(lastAssign.pos, lastAssign.before[1]) = SqDist(lastAssign.pos, lastAssign.before[0])

\* y falls over the first three sample pairs of the window.
RisesAtStart(w) == w[1].y > w[2].y /\ w[2].y > w[3].y /\ w[3].y > w[4].y

\* A window is a shot attempt: it rises at its start, and its last sample is
\* nearer the centre line than its first or within 0.2 of it.
IsShotAttempt(w) ==
    /\ RisesAtStart(w)
    /\ \/ HoopCloser(w[Len(w)].x, w[1].x)
       \/ HoopDistLt20(w[Len(w)].x)

\* The list is the synthetic demo set: 20 shots, 150 frames apart, without a
\* trajectory (a detected shot has a trajectory of six samples or more).
IsSynthetic(list) ==
    /\ Len(list) = 20
    /\ \A k \in 1..Len(list) :
         /\ list[k].trajectory = << >>
         /\ list[k].frame_start = (k - 1) * 150

NoQualifyingWindow(track) ==
    \A k \in 0..(Len(track) - 6) : ~IsShotAttempt(WindowAt(track, k))

\* C2: the detector returns the synthetic set exactly when the stream has
\* fewer than 10 samples or no window of the scan qualifies; it never returns
\* an empty list.
C2_FallbackExactly ==
    pc = "done" =>
        /\ result # << >>
        /\ IsSynthetic(result) <=>
               (Len(ball_track) < 10 \/ NoQualifyingWindow(ball_track))
        /\ Len(ball_track) \in {0, 9} => IsSynthetic(result)

\* A stream of exactly 10 samples without a qualifying window fell back.
C2_Witness ==
    /\ pc = "done"
    /\ Len(ball_track) = 10
    /\ IsSynthetic(result)

\* One iteration of the scan moves the index past the window when it
\* qualifies and by one sample when it does not.
ScanAdvance ==
    (pc = "scan" /\ pc' = "scan") =>
        i' = i + (IF IsShotAttempt(WindowAt(ball_track, i))
                      THEN Len(WindowAt(ball_track, i))
                      ELSE 1)

\* Each detected shot starts after the shot before it has ended, and its
\* trajectory is the run of samples from its first frame to its last.
NoOverlap ==
    pc \in {"scan", "done"} =>
        /\ \A k \in 1..(Len(shots) - 1) : shots[k].frame_end < shots[k + 1].frame_start
        /\ \A k \in 1..Len(shots) :
             /\ shots[k].frame_end =
                    shots[k].frame_start + FrameStep * (Len(shots[k].trajectory) - 1)
             /\ shots[k].frame_end <= ball_track[Len(ball_track)].frame

\* C3: a qualifying window advances the scan past the whole window, any other
\* window by exactly one sample; so no sample is in two shots, and a later
\* shot's first sample comes strictly after the earlier shot's last.
C3_NoOverlap == []NoOverlap /\ [][ScanAdvance]_vars

\* Two shots were detected after a first window that did not qualify.
C3_Witness ==
    /\ pc = "scan"
    /\ Len(shots) = 2
    /\ shots[1].frame_start > 0

\* C4: a window is a shot attempt if and only if y strictly decreases across
\* its first three sample pairs and its last sample is nearer the centre line
\* than its first or within 0.2 of it.
C4_ShotIff ==
    pc \in {"analyzed", "scored"} => (verdict.is_shot <=> IsShotAttempt(window))

\* A shot whose last sample is 0.2 or more from the centre line, but nearer
\* than its first.
C4_Witness ==
    /\ pc = "analyzed"
    /\ verdict.is_shot
    /\ ~HoopDistLt20(window[Len(window)].x)

\* The least y of the window occurs before its last two samples.
MinBeforeLastTwo(w) ==
    \E k \in 1..(Len(w) - 2) : \A j \in 1..Len(w) : w[k].y <= w[j].y

MakeCase(w) ==
    /\ FinalYLt15(w[Len(w)].y)
    /\ HoopDistLt10(w[Len(w)].x)
    /\ MinBeforeLastTwo(w)

MissCase(w) ==
    /\ ~MakeCase(w)
    /\ FinalYGt20(w[Len(w)].y) \/ HoopDistGt15(w[Len(w)].x)

\* The draw that led to generator state r.
DrawBefore(r) == (r + RandMod - RandStep) % RandMod

\* C5: a qualifying window is a make when final_y < 0.15, |end_x - 0.5| < 0.1
\* and the least y is before the last two samples; else a miss when
\* final_y > 0.2 or |end_x - 0.5| > 0.15; else the random source decides
\* (make when the draw exceeds 0.45).  No draw is taken in the first two cases.
C5_Outcome ==
    (pc \in {"analyzed", "scored"} /\ verdict.is_shot) =>
        /\ verdict.outcome \in {"make", "miss"}
        /\ MakeCase(window) => (verdict.outcome = "make" /\ rng = Unseeded)
        /\ MissCase(window) => (verdict.outcome = "miss" /\ rng = Unseeded)
        /\ (~MakeCase(window) /\ ~MissCase(window)) =>
               /\ rng # Unseeded
               /\ verdict.outcome = "make" <=> 100 * DrawBefore(rng) > 45 * RandMod

\* An ambiguous window the random source made a make.
C5_Witness ==
    /\ pc = "analyzed"
    /\ verdict.is_shot
    /\ ~MakeCase(window)
    /\ ~MissCase(window)
    /\ verdict.outcome = "make"

\* y strictly decreases over the first five samples.
FallsFiveFrames(w) == \A k \in 1..4 : w[k].y > w[k + 1].y

\* The last sample is near x_norm = 0.5, y_norm = 0.1: within 0.1 of the
\* centre line and above the 0.15 line.
EndsAtHoop(w) == HoopDistLt10(w[Len(w)].x) /\ FinalYLt15(w[Len(w)].y)

\* The least y is at a sample that is neither the first nor the last.
InteriorMin(w) ==
    \E k \in 2..(Len(w) - 1) : \A j \in 1..Len(w) : w[k].y <= w[j].y

ConfidenceInRange(c) == (7 * ConfScale) \div 10 <= c /\ c <= (98 * ConfScale) \div 100

\* C6 as stated: falling over five frames, ending at the hoop, with an interior
\* least y, is always a make with confidence in [0.7, 0.98].
C6_Original ==
    (pc \in {"analyzed", "scored"} /\ FallsFiveFrames(window) /\ EndsAtHoop(window)
        /\ InteriorMin(window)) =>
        /\ verdict.is_shot
        /\ verdict.outcome = "make"
        /\ pc = "scored" => ConfidenceInRange(result)

\* C6 (amended): a window falling over its first five frames, ending at the
\* hoop, whose least y is before its last two samples, is a make whatever the
\* random source holds (no draw is taken), with confidence in [0.7, 0.98].
C6_MakeScenario ==
    (pc \in {"analyzed", "scored"} /\ FallsFiveFrames(window) /\ EndsAtHoop(window)
        /\ MinBeforeLastTwo(window)) =>
        /\ verdict.is_shot
        /\ verdict.outcome = "make"
        /\ rng = Unseeded
        /\ pc = "scored" => ConfidenceInRange(result)

C6_Witness ==
    /\ pc = "scored"
    /\ FallsFiveFrames(window)
    /\ window[Len(window)].x = 960
    /\ window[Len(window)].y = 108
    /\ MinBeforeLastTwo(window)
    /\ verdict.outcome = "make"

\* The window rises at its start and its last sample is at x_norm = 0.9.
EndsWide(w) == RisesAtStart(w) /\ 10 * w[Len(w)].x = 9 * FrameWidth

\* C7 as stated: such a window is a miss wherever it starts.
C7_Original ==
    (pc \in {"analyzed", "scored"} /\ EndsWide(window)) =>
        (verdict.is_shot /\ verdict.outcome = "miss")

\* C7 (amended): a window rising at its start whose last sample is at
\* x_norm = 0.9 is a shot with outcome miss when its first sample is farther
\* from the centre line than 0.4, and is no shot otherwise.
C7_MissScenario ==
    (pc \in {"analyzed", "scored"} /\ EndsWide(window)) =>
        IF 10 * Abs(2 * window[1].x - FrameWidth) > 8 * FrameWidth
            THEN verdict.is_shot /\ verdict.outcome = "miss" /\ rng = Unseeded
            ELSE ~verdict.is_shot

C7_Witness ==
    /\ pc = "analyzed"
    /\ EndsWide(window)
    /\ window[1].x = 1900
    /\ verdict.outcome = "miss"

\* The zones in the order the classifier is to try them.
ZoneOrder ==
    <<"paint", "left-corner", "right-corner", "left-wing", "right-wing", "top-key",
      "mid-range">>

\* The rectangle of the k-th zone of ZoneOrder contains the position, bounds
\* included.
Contains(k, p) ==
    \E n \in 1..Len(zones) :
        /\ zones[n].name = ZoneOrder[k]
        /\ zones[n].x_lo * FrameWidth <= 100 * p[1]
        /\ 100 * p[1] <= zones[n].x_hi * FrameWidth
        /\ zones[n].y_lo * FrameHeight <= 100 * p[2]
        /\ 100 * p[2] <= zones[n].y_hi * FrameHeight

\* The position at the normalized coordinates (nx, ny), given in hundredths.
AtNorm(p, nx, ny) == 100 * p[1] = nx * FrameWidth /\ 100 * p[2] = ny * FrameHeight

\* C8: _get_zone returns exactly one zone name: the first rectangle, in the
\* order paint, left-corner, right-corner, left-wing, right-wing, top-key,
\* mid-range, that contains the normalized position (bounds included), and
\* mid-range when none does.  (0.5, 0.1) is paint, (0.1, 0.8) left-corner,
\* (0.5, 0.9) mid-range.
C8_FirstZone ==
    pc = "zoned" =>
        LET hits == {k \in 1..Len(ZoneOrder) : Contains(k, pos)}
        IN  /\ result \in ZoneNames
            /\ hits = {} => result = "mid-range"
            /\ hits # {} => \E k \in hits : /\ result = ZoneOrder[k]
                                           /\ \A j \in hits : k <= j
            /\ AtNorm(pos, 50, 10) => result = "paint"
            /\ AtNorm(pos, 10, 80) => result = "left-corner"
            /\ AtNorm(pos, 50, 90) => (hits = {} /\ result = "mid-range")

\* A position on the corner shared by paint, left-wing and mid-range is paint.
C8_Witness ==
    /\ pc = "zoned"
    /\ AtNorm(pos, 35, 25)
    /\ Cardinality({k \in 1..Len(ZoneOrder) : Contains(k, pos)}) = 3
    /\ result = "paint"

\* The shots of a zone, and those made, in the list aggregated.
Attempts(zone) == Cardinality({k \in 1..Len(shots) : shots[k].zone = zone})
Makes(zone) ==
    Cardinality({k \in 1..Len(shots) : shots[k].zone = zone /\ shots[k].outcome = "make"})
\* The place of a zone's first shot in the list.
FirstSeen(zone) == CHOOSE k \in 1..Len(shots) :
                       /\ shots[k].zone = zone
                       /\ \A j \in 1..(k - 1) : shots[j].zone # zone
\* The zones with more than 2 attempts.
Eligible == {z \in ZoneNames : Attempts(z) > 2}

\* C9: hotZone is the zone with the highest make rate among the zones with
\* more than 2 attempts (the first encountered on a tie), and mid-range when
\* no zone has more than 2 attempts; a zone with 2 attempts or fewer is never
\* returned while some zone has more than 2.  (The name is returned in its
\* display form.)
C9_HotZone ==
    pc = "reported" =>
        IF Eligible = {}
            THEN result.hotZone = DisplayName("mid-range")
            ELSE \E z \in Eligible :
                    /\ result.hotZone = DisplayName(z)
                    /\ \A o \in Eligible :
                         \/ Makes(o) * Attempts(z) < Makes(z) * Attempts(o)
                         \/ /\ Makes(o) * Attempts(z) = Makes(z) * Attempts(o)
                            /\ FirstSeen(z) <= FirstSeen(o)

\* C10: makes + misses = totalShots = len(shots), makes being the number of
\* shots whose outcome is make.
C10_Totals ==
    pc = "reported" =>
        /\ result.makes + result.misses = result.totalShots
        /\ result.totalShots = Len(shots)
        /\ result.makes = Cardinality({k \in 1..Len(shots) : shots[k].outcome = "make"})
        /\ result.misses >= 0

\* A list with a make, a miss and a shot of unknown outcome was aggregated.
C10_Witness ==
    /\ pc = "reported"
    /\ \E k \in 1..Len(shots) : shots[k].outcome = "unknown"
    /\ \E k \in 1..Len(shots) : shots[k].outcome = "miss"
    /\ result.makes > 0

\* The zones that occur in the list aggregated.
ZonesShot == {shots[k].zone : k \in 1..Len(shots)}

\* C11: every ZoneStat has 0 <= makes <= attempts and a percentage that is
\* makes / attempts * 100 to the nearest tenth (0 without attempts); there is
\* one ZoneStat for each zone of the list and no other, its attempts and makes
\* being the numbers of that zone's shots and of those made.
C11_ZoneStats ==
    pc = "zonestats" =>
        /\ \A z \in ZonesShot :
             Cardinality({k \in 1..Len(result) : result[k].name = DisplayName(z)}) = 1
        /\ Len(result) = Cardinality(ZonesShot)
        /\ \A k \in 1..Len(result) :
             LET r == result[k]
             IN  /\ 0 <= r.makes /\ r.makes <= r.attempts
                 /\ \E z \in ZonesShot :
                      /\ r.name = DisplayName(z)
                      /\ r.attempts = Attempts(z)
                      /\ r.makes = Makes(z)
                 /\ IF r.attempts = 0 THEN r.percentage = 0
                    ELSE 2 * Abs(r.percentage * r.attempts - 1000 * r.makes) <= r.attempts

\* Two zones were reported, one of them at 33.3 percent.
C11_Witness ==
    /\ pc = "zonestats"
    /\ Len(result) = 2
    /\ \E k \in 1..Len(result) : result[k].percentage = 333

\* The k-th ShotEvent of the list has id k.
SequentialIds(list) == \A k \in 1..Len(list) : list[k].id = k

\* C12: the detector's result carries the ids 1, 2, ..., n in order, without
\* gap or repeat, for detected shots and for the synthetic set; the list being
\* built during the scan does too, the next id being one more than its length.
C12_SequentialIds ==
    /\ pc = "done" => SequentialIds(result)
    /\ pc = "scan" => (SequentialIds(shots) /\ shot_id = Len(shots) + 1)

\* Three shots were detected and returned.
C12_Witness ==
    /\ pc = "done"
    /\ ~IsSynthetic(result)
    /\ Len(result) = 3

\* The track ids in use are 0 .. n - 1 for the n tracks created, each track
\* holding a sample.
IdsDense ==
    pc \in {"track", "tracked"} =>
        /\ DOMAIN players = 0..(player_id - 1)
        /\ DOMAIN last_player_positions = DOMAIN players
        /\ \A pid \in DOMAIN players : Len(players[pid]) >= 1

\* A step creates at most one track, under the id that follows every id
\* given before, and leaves every sample under the id it has.
IdsStable ==
    /\ player_id' \in {player_id, player_id + 1}
    /\ \A pid \in 0..(player_id - 1) :
         /\ Len(players'[pid]) >= Len(players[pid])
         /\ SubSeq(players'[pid], 1, Len(players[pid])) = players[pid]
    /\ player_id' = player_id + 1 =>
         /\ DOMAIN players' = DOMAIN players \cup {player_id}
         /\ Len(players'[player_id]) = 1

\* C13: within a run of track_objects the track ids are given in strictly
\* increasing order and never reused: the ids are always 0 .. n - 1 for n
\* tracks created, and a sample stays under the id it was first given.
C13_TrackIds == []IdsDense /\ [][IdsStable]_vars

\* Two tracks exist, and a later detection joined the first of them.
C13_Witness ==
    /\ pc = "tracked"
    /\ player_id = 2
    /\ Len(players[0]) = 2
    /\ players[0][2].frame > players[1][1].frame

\* The frame of the last sample a track had when the last person detection
\* was assigned, and the frame of that detection.
FrameBefore(pid) ==
    IF pid = lastAssign.matched
        THEN players[pid][Len(players[pid]) - 1].frame
        ELSE players[pid][Len(players[pid])].frame
AssignFrame == players[lastAssign.matched][Len(players[lastAssign.matched])].frame

\* C14: a track never expires: however many frames have passed without a
\* detection for it, it is a candidate at its last recorded position: a person
\* detection within 100 px of that position starts no new track, and joins a
\* track no farther away.
C14_NeverExpires ==
    pc = "track" =>
        /\ \A pid \in DOMAIN players :
             LET last == players[pid][Len(players[pid])]
             IN  last_player_positions[pid] = <<last.x, last.y>>
        /\ lastAssign.matched # NoMatch =>
             \A pid \in DOMAIN lastAssign.before :
                 (/\ FrameBefore(pid) + FrameStep < AssignFrame
                  /\ SqDist(lastAssign.pos, lastAssign.before[pid]) < 100 * 100) =>
                     /\ ~lastAssign.created
                     /\ SqDist(lastAssign.pos, lastAssign.before[lastAssign.matched])
                            <= SqDist(lastAssign.pos, lastAssign.before[pid])

\* A detection joined a track that had no sample in the frame before.
C14_Witness ==
    /\ pc = "track"
    /\ lastAssign.matched # NoMatch
    /\ ~lastAssign.created
    /\ FrameBefore(lastAssign.matched) + FrameStep < AssignFrame

\* The detections read whose class is cls, in the order read.
SeenOfClass(cls) == SelectSeq(seen, LAMBDA d : d.class = cls)

Hundredths(n) == (n * ConfScale) \div 100

\* min(0.7 + min(L / 15, 0.15) + max(0, 0.15 - |end_x_norm - 0.5|), 0.98) for
\* a window of L samples whose last sample is at column x.
ConfidenceFormula(L, x) ==
    LET lengthTerm == IF 100 * L < 15 * 15 THEN (L * ConfScale) \div 15 ELSE Hundredths(15)
        offCentre == (Abs(2 * x - FrameWidth) * ConfScale) \div (2 * FrameWidth)
        nearTerm == IF offCentre < Hundredths(15) THEN Hundredths(15) - offCentre ELSE 0
        sum == Hundredths(70) + lengthTerm + nearTerm
    IN  IF sum < Hundredths(98) THEN sum ELSE Hundredths(98)

\* C16: the confidence of a detected shot is min(0.7 + min(L / 15, 0.15) +
\* max(0, 0.15 - |end_x_norm - 0.5|), 0.98), L being the length of its window;
\* it is within [0.7, 0.98]; every ShotEvent returned, a synthetic one
\* included, has a confidence within [0, 0.98].
C16_Confidence ==
    /\ pc \in {"scan", "done"} =>
         \A k \in 1..Len(shots) :
             LET t == shots[k].trajectory
                 c == shots[k].confidence
             IN  /\ c = ConfidenceFormula(Len(t), t[Len(t)][1])
                 /\ Hundredths(70) <= c
                 /\ c <= Hundredths(98)
    /\ pc = "done" =>
         \A k \in 1..Len(result) :
             0 <= result[k].confidence /\ result[k].confidence <= Hundredths(98)

\* A shot that ended 0.1 from the centre line was returned with confidence 0.9.
C16_Witness ==
    /\ pc = "done"
    /\ \E k \in 1..Len(result) :
         /\ result[k].trajectory # << >>
         /\ result[k].confidence = Hundredths(90)

\* C17: aggregation has a result on empty collections: for the empty list the
\* statistics are totalShots 0, makes 0, misses 0, fieldGoalPercentage 0,
\* threePointPercentage 0 and hotZone mid-range (in its display form), and the
\* zone stats are the empty list; for a list without a shot from a three-point
\* zone, threePointPercentage is 0.
C17_EmptyDefaults ==
    /\ (pc = "reported" /\ shots = << >>) =>
         /\ result.totalShots = 0
         /\ result.makes = 0
         /\ result.misses = 0
         /\ result.fieldGoalPercentage = 0
         /\ result.threePointPercentage = 0
         /\ result.hotZone = DisplayName("mid-range")
    /\ (pc = "zonestats" /\ shots = << >>) => result = << >>
    /\ (pc = "reported" /\ \A k \in 1..Len(shots) : shots[k].zone \notin three_zones) =>
         result.threePointPercentage = 0

\* The empty list was aggregated.
C17_Witness ==
    /\ pc = "reported"
    /\ shots = << >>
    /\ result.totalShots = 0

\* A window that is a shot attempt and neither a make nor a miss by its last
\* sample: the random source decides its outcome.
Ambiguous(w) == IsShotAttempt(w) /\ ~MakeCase(w) /\ ~MissCase(w)
NoAmbiguousWindow(track) ==
    \A k \in 0..(Len(track) - 6) : ~Ambiguous(WindowAt(track, k))

C19_PureCore ==
    (/\ pc = "analysed"
     /\ run = 2
     /\ Len(ball_track) >= 10
     /\ ~NoQualifyingWindow(ball_track)
     /\ NoAmbiguousWindow(ball_track)) =>
        /\ result.statistics = earlier.statistics
        /\ result.shots = earlier.shots
        /\ result.zones = earlier.zones

\* track_objects run by itself on a video: the tracks after its first n
\* frames.  A person detection joins the nearest track within 100 px, the one
\* with the lowest id among equals, or starts the next track.
RECURSIVE TracksAlone(_, _)
TracksAlone(v, n) ==
    IF n = 0 THEN [players |-> << >>, last |-> << >>, ball |-> << >>]
    ELSE LET t == TracksAlone(v, n - 1)
             fr == v[n]
             p == fr.object.pos
             sample == [frame |-> fr.frame, timestamp |-> fr.frame, x |-> p[1], y |-> p[2]]
             near == {pid \in DOMAIN t.last : SqDist(p, t.last[pid]) < 100 * 100}
             best == CHOOSE pid \in near :
                        \A q \in near :
                            \/ SqDist(p, t.last[pid]) < SqDist(p, t.last[q])
                            \/ SqDist(p, t.last[pid]) = SqDist(p, t.last[q]) /\ pid <= q
             count == Cardinality(DOMAIN t.players)
             id == IF near = {} THEN count ELSE best
             ids == 0..(IF near = {} THEN count ELSE count - 1)
         IN  IF fr.object.class = "person"
                 THEN [players |-> [pid \in ids |->
                                       IF pid = id
                                           THEN Append(IF near = {} THEN << >>
                                                       ELSE t.players[pid], sample)
                                           ELSE t.players[pid]],
                       last |-> [pid \in ids |-> IF pid = id THEN p ELSE t.last[pid]],
                       ball |-> t.ball]
             ELSE IF fr.object.class = "sports ball"
                 THEN [t EXCEPT !.ball = Append(t.ball, sample)]
             ELSE t

\* The scan of _detect_shots run by itself from index k on, the generator in
\* state r: the list it ends with.
RECURSIVE ScanAlone(_, _, _, _, _)
ScanAlone(track, k, id, list, r) ==
    IF ~(k < Len(track) - 5)
        THEN IF list = << >> THEN GenerateMockShots(r).shots ELSE list
    ELSE LET w == WindowAt(track, k)
             a == AnalyzeTrajectory(w, r)
         IN  IF a.is_shot
                 THEN ScanAlone(track, k + Len(w), id + 1,
                                Append(list, DetectedShot(id, w, a.outcome)), a.rng)
                 ELSE ScanAlone(track, k + 1, id, list, a.rng)

\* _detect_shots run by itself on a ball stream, the generator in state r.
ShotsAlone(track, r) ==
    IF Len(track) < 10 THEN GenerateMockShots(r).shots
    ELSE ScanAlone(track, 0, 1, << >>, r)

\* What a finished run returned equals what its video gives when it is run
\* by itself, the generator being in the state the run found it in.
SameAsAlone(l, v) ==
    LET t == TracksAlone(v, Len(v))
    IN  /\ l.players = t.players
        /\ l.ball = t.ball
        /\ l.result = ShotsAlone(t.ball, l.seed)

\* C20: two pipeline runs interleaved at their yield points share no state:
\* each returns the tracks and the ShotEvent list it returns when run by
\* itself without giving way.
C20_Interleaving ==
    (pc = "done" /\ peer.pc = "done") =>
        /\ SameAsAlone(Locals, video[run])
        /\ SameAsAlone(peer, video[3 - run])

\* The person tracks track_objects returned.
ReturnedTracks == result.players

\* No track returned holds two samples of one frame: the frame indexes of
\* each track are strictly increasing.
FramesStrictlyIncreasing ==
    \A pid \in DOMAIN ReturnedTracks :
        \A k \in 1..(Len(ReturnedTracks[pid]) - 1) :
            ReturnedTracks[pid][k].frame < ReturnedTracks[pid][k + 1].frame

\* C21 as stated: in the output of track_objects no person track holds two
\* samples with the same frame index; the frames being read in strictly
\* increasing order, each track's frame indexes are strictly increasing.
C21_Original == pc = "tracked" => FramesStrictlyIncreasing

\* C21: in the output of track_objects the frame indexes of each person track
\* never decrease, and every sample of a track after its first is less than
\* 100 px from the sample before it; a track holds two samples of one frame
\* when the later detection is that near to the earlier one.
C21_FramesNeverDecrease ==
    pc = "tracked" =>
        \A pid \in DOMAIN ReturnedTracks :
            \A k \in 1..(Len(ReturnedTracks[pid]) - 1) :
                LET a == ReturnedTracks[pid][k]
                    b == ReturnedTracks[pid][k + 1]
                IN  /\ a.frame <= b.frame
                    /\ SqDist(<<a.x, a.y>>, <<b.x, b.y>>) < 100 * 100

\* A track was returned that holds two samples of one frame and a sample of a
\* later frame.
C21_Witness ==
    /\ pc = "tracked"
    /\ \E pid \in DOMAIN ReturnedTracks :
         /\ Len(ReturnedTracks[pid]) = 3
         /\ ReturnedTracks[pid][1].frame = ReturnedTracks[pid][2].frame
         /\ ReturnedTracks[pid][2].frame < ReturnedTracks[pid][3].frame

\* The outcomes of a list of shots are make or miss.
MakeOrMiss(list) ==
    \A k \in 1..Len(list) : list[k].outcome \in {"make", "miss"}

\* C22: every ShotEvent _detect_shots returns, detected or synthetic, has
\* outcome make or miss and never unknown; hence in the report of
\* analyze_shots statistics.misses, total minus makes, is the number of shots
\* whose outcome is miss.
C22_NeverUnknown ==
    /\ pc = "done" => MakeOrMiss(result)
    /\ pc = "analysed" =>
         /\ MakeOrMiss(result.shots)
         /\ result.statistics.totalShots = Len(result.shots)
         /\ result.statistics.misses =
                Cardinality({k \in 1..Len(result.shots) : result.shots[k].outcome = "miss"})

\* A report on detected shots, a make and a miss among them, the stream
\* holding windows that are no shot attempt as well.
C22_Witness ==
    /\ pc = "analysed"
    /\ Len(ball_track) >= 10
    /\ \E k \in 1..Len(result.shots) : result.shots[k].outcome = "make"
    /\ \E k \in 1..Len(result.shots) : result.shots[k].outcome = "miss"
    /\ result.statistics.misses >= 1
    /\ \E k \in 0..(Len(ball_track) - 6) : ~IsShotAttempt(WindowAt(ball_track, k))

====
